---- MODULE Spec2Model ----
(***************************************************************************)
(* State-machine model of the storefront backend in src/index.js: the      *)
(* users and products collections of the document store, and the request   *)
(* handlers /signup, /login, /addproduct, /removeproduct, /upload,         *)
(* /addtocart, /removefromcart and /getcart, together with the start of    *)
(* the process and its store connection.  Every handler is cut at its     *)
(* store operations (its awaits): the code between two store operations of *)
(* one request runs without interruption on the single JavaScript thread,  *)
(* and the store operations of different requests interleave freely.       *)
(***************************************************************************)
EXTENDS Integers, Sequences, FiniteSets, TLC

(***************************************************************************)
(* Bounds of the model.                                                    *)
(***************************************************************************)
NumReqs == 2        \* requests that can be in flight at the same time
MaxUsers == 2       \* user records the store can hold
MaxCartOps == 3     \* cart mutations (adds and removes) the store accepts in all
MaxAssigned == 4    \* successful /addproduct calls
MaxOutstanding == 1 \* store operations of ended processes not yet executed

(***************************************************************************)
(* Program constants.                                                      *)
(***************************************************************************)
CartSlots == 300    \* for (let i = 1; i <= 300; i++) cart[i] = 0
DuplicateKey == 11000   \* error.code of the store's unique-index violation

Reqs == 1..NumReqs
UserIds == 1..MaxUsers

VARIABLES
    users,      \* the Users collection, in insertion order; _id is the position
    products,   \* the Product collection, in the order find({}) returns it
    nextOid,    \* the store identity (_id) the next product record gets
    outstanding,    \* the operations that a process issued before it ended and
                \* that the store has not executed yet
    secret,     \* process.env.JWT_SECRET
    conn,       \* the process and its store connection: "connecting" from the
                \* start of the process until mongoose.connect settles,
                \* "connected" after it resolved, "exited" after process.exit(1)
    reqs,       \* one record per request slot: the handler's position and locals
    nCartOps,   \* the cart mutations accepted so far (bounds the model)
    cartOps,    \* history: per user and product, the cart requests handled
    assigned,   \* history: the ids of the stored products, in the order stored
    signedUp,   \* history: the signups stored (email, password, _id)
    issued      \* history: the tokens handed out, each with the user id it was
                \* signed for and the secret in force when it was signed

dbVars == <<users, products, nextOid, outstanding>>
procVars == <<secret, conn>>
histVars == <<nCartOps, assigned, signedUp, issued>>
vars == <<users, products, nextOid, outstanding, secret, conn, reqs, nCartOps, cartOps,
          assigned, signedUp, issued>>

(***************************************************************************)
(* bcryptjs: hash(password, salt) yields a digest that embeds the salt;    *)
(* compare(password, digest) hashes the password again under the digest's  *)
(* salt and compares the results.                                          *)
(***************************************************************************)
\* a credential that is the password itself, unsalted and unhashed
PlainText(password, salt) ==
    [alg |-> "plain", salt |-> "", digest |-> <<"", password>>]

BcryptHash(password, salt) ==
    [alg |-> "bcrypt", salt |-> salt, digest |-> <<salt, password>>]

BcryptCompare(password, stored) ==
    BcryptHash(password, stored.salt) = stored

(***************************************************************************)
(* jsonwebtoken: sign(data, secret) yields payload and signature;          *)
(* verify(token, secret) accepts exactly the tokens whose signature is     *)
(* that of their payload under `secret`.  The payload is {user: {id}}.     *)
(***************************************************************************)
NoToken == [id |-> 0, sig |-> <<0, "none">>]

\* a signature under a secret written into the code
JwtSignFixedKey(id, key) == [id |-> id, sig |-> <<id, "secret_ecom">>]

JwtSign(id, key) == [id |-> id, sig |-> <<id, key>>]

\* a verification that checks the payload against the signature but not the key
JwtVerifyAnyKey(token, key) == token # NoToken /\ token.sig[1] = token.id

JwtVerify(token, key) == token # NoToken /\ token.sig = <<token.id, key>>

(***************************************************************************)
(* JavaScript truthiness of the request fields the handlers test with !x:  *)
(* a string is falsy when empty, a number when 0.                          *)
(***************************************************************************)
FalsyStr(s) == s = ""
FalsyNum(n) == n = 0

(***************************************************************************)
(* Cart maps.  A cart is a function from product keys to quantities; a key *)
(* outside its domain reads as undefined.                                  *)
(***************************************************************************)
EmptyCart == [k \in {} |-> 0]

\* let cart = {}; for (let i = 1; i <= 300; i++) cart[i] = 0;
SignupCart == [k \in 1..CartSlots |-> 0]

\* !userData.cartData[productId]: undefined and 0 are falsy
CartFalsy(cart, k) == k \notin DOMAIN cart \/ cart[k] = 0

\* the quantity a client sees: absence of a key is quantity 0
Qty(cart, k) == IF k \in DOMAIN cart THEN cart[k] ELSE 0

\* userData.cartData[productId] = (userData.cartData[productId] || 0) + 1
CartAfterAdd(cart, k) ==
    LET q == (IF CartFalsy(cart, k) THEN 0 ELSE cart[k]) + 1
    IN  IF k \in DOMAIN cart
            THEN [cart EXCEPT ![k] = q]
            ELSE [j \in DOMAIN cart \cup {k} |-> IF j = k THEN q ELSE cart[j]]

\* a decrement that keeps the key at quantity 0
CartAfterRemoveKeepZero(cart, k) == [cart EXCEPT ![k] = @ - 1]

\* if (cartData[productId] > 1) cartData[productId] -= 1; else delete cartData[productId]
CartAfterRemove(cart, k) ==
    IF cart[k] > 1
        THEN [cart EXCEPT ![k] = @ - 1]
        ELSE [j \in DOMAIN cart \ {k} |-> cart[j]]

\* a remove that only decrements, with neither the guard nor the delete
RemoveOutcomeNaive(cart, k) ==
    IF k \notin DOMAIN cart
        THEN [status |-> 400, cart |-> cart]
        ELSE [status |-> 200, cart |-> [cart EXCEPT ![k] = @ - 1]]

\* a remove that deletes the key whenever the key is present
RemoveOutcomeDeleteZero(cart, k) ==
    IF k \notin DOMAIN cart
        THEN [status |-> 400, cart |-> cart]
        ELSE [status |-> 200, cart |-> [j \in DOMAIN cart \ {k} |-> cart[j]]]

\* /removefromcart on the cart read: the 400 of an absent or zero quantity,
\* else the decrement or the delete
RemoveOutcome(cart, k) ==
    IF CartFalsy(cart, k)
        THEN [status |-> 400, cart |-> cart]
        ELSE [status |-> 200, cart |-> CartAfterRemove(cart, k)]

(***************************************************************************)
(* req.body.itemId as the JSON body parser delivers it.  typ is the typeof *)
(* of the value ("undefined" for a field that is missing); a number is     *)
(* num + half/2 with half 0 or 1; a string is the decimal text of num.     *)
(***************************************************************************)
Json(typ, num, half) == [typ |-> typ, num |-> num, half |-> half]

\* the integer n as a JSON number
Num(n) == Json("number", n, 0)

NoItem == Json("undefined", 0, 0)

\* !productId: undefined and the number 0 are falsy, a non-empty string is not
FalsyItemId(v) == v.typ = "undefined" \/ (v.typ = "number" /\ v.num = 0 /\ v.half = 0)

\* !productId, typeof productId !== 'number' || productId < 1
InvalidItemId(v) == FalsyItemId(v) \/ v.typ # "number" \/ 2 * v.num + v.half < 2

\* cartData[productId]: the property key String(productId).  The key of the
\* integer n is named n; the key "n.5" of a number with a fractional part is
\* named by the negative number -(2n + 1), the key of no number that passes
\* the validation.
PropertyKey(v) == IF v.half = 0 THEN v.num ELSE 0 - (2 * v.num + v.half)

\* a stored map with a key that contains a dot: the store takes it or refuses
\* the write, depending on its version
DottedKey(cart) == \E k \in DOMAIN cart : k < 0

WriteOutcomes(cart) == IF DottedKey(cart) THEN {"ok", "refused"} ELSE {"ok"}

(***************************************************************************)
(* Request slots and responses.                                            *)
(***************************************************************************)
NoBody == [name |-> "", image |-> "", category |-> "", new_price |-> 0, old_price |-> 0]

\* res.status(s).json({success, message | errors, token}); success is "absent"
\* where the body has no such field; text names the field that carries the
\* human-readable text ("message", "errors"), "absent" where the body has none
Resp(status, success, text, token) ==
    [status |-> status, success |-> success, text |-> text, token |-> token]

NoResp == Resp(0, "absent", "absent", NoToken)

\* op: the endpoint; token: the auth-token header; item: req.body.itemId;
\* itemId: the property key of item, or req.body.id of /removeproduct; userId:
\* req.user.id; cart: userData.cartData in the handler
IdleReq ==
    [op |-> "none", pc |-> "done", token |-> NoToken, userId |-> 0, item |-> NoItem,
     itemId |-> 0, cart |-> EmptyCart,
     name |-> "", email |-> "", password |-> "", body |-> NoBody, newId |-> 0,
     resp |-> NoResp]

\* a request ends: its response is sent and its slot is free for the next one
Finish(r, rec, resp) == reqs' = [reqs EXCEPT ![r] = [rec EXCEPT !.pc = "done", !.resp = resp]]

\* a request has issued a store operation and waits for it
Await(r, rec) == reqs' = [reqs EXCEPT ![r] = [rec EXCEPT !.pc = "pending", !.resp = NoResp]]

Free(r) == reqs[r].pc = "done"

\* the process is running: app.listen has been called and process.exit has not
Listening == conn # "exited"

\* the store connection is up.  An operation a handler issues before that is
\* buffered by the driver, so the step that issues it happens once it is up.
StoreReady == conn = "connected"

Pending(r, op) == reqs[r].pc = "pending" /\ reqs[r].op = op

\* the operations of kind op on their way to the store, from the running
\* process and from ended ones
NumPending(op) ==
    Cardinality({q \in Reqs : Pending(q, op)}) + Cardinality({o \in outstanding : o.op = op})

(***************************************************************************)
(* The Users collection.  email carries a unique index (unique: true).     *)
(***************************************************************************)
EmailTaken(coll, email) == \E i \in 1..Len(coll) : coll[i].email = email

\* Users.findOne({ email }): the position of the record, 0 for null
FindByEmail(coll, email) ==
    IF EmailTaken(coll, email)
        THEN CHOOSE i \in 1..Len(coll) : coll[i].email = email
        ELSE 0

\* a save on a collection without the unique index
SaveUserNoIndex(coll, doc) == [code |-> 0, coll |-> Append(coll, doc)]

\* user.save(): the insert, or the duplicate-key error of the unique index
SaveUser(coll, doc) ==
    IF EmailTaken(coll, doc.email)
        THEN [code |-> DuplicateKey, coll |-> coll]
        ELSE [code |-> 0, coll |-> Append(coll, doc)]

\* history of a token handed out: the user id it was signed for, the secret in
\* force at that moment, and the token
Issue(id, key) == [id |-> id, key |-> key, token |-> JwtSign(id, key)]

(***************************************************************************)
(* POST /signup                                                            *)
(***************************************************************************)
\* up to Users.findOne({ email }) and the check of its result
SignupCheck(r, name, email, password) ==
    /\ Listening /\ Free(r)
    /\ EmailTaken(users, email) \/ Len(users) + NumPending("signup") < MaxUsers
    /\ LET rec == [IdleReq EXCEPT !.op = "signup", !.name = name, !.email = email,
                                  !.password = password]
       IN  IF FalsyStr(name) \/ FalsyStr(email) \/ FalsyStr(password)
               THEN Finish(r, rec, Resp(400, "false", "errors", NoToken))
           ELSE /\ StoreReady
                /\ IF EmailTaken(users, email)
                       THEN Finish(r, rec, Resp(400, "false", "errors", NoToken))
                       ELSE Await(r, rec)
    /\ UNCHANGED <<dbVars, procVars, histVars, cartOps>>

\* the cart, the hash, user.save(), the token and the response, or the catch
SignupSave(r, salt) ==
    /\ Pending(r, "signup")
    /\ LET rec == reqs[r]
           id == Len(users) + 1
           doc == [_id |-> id, name |-> rec.name, email |-> rec.email,
                   password |-> BcryptHash(rec.password, salt),
                   cartData |-> SignupCart]
           saved == SaveUser(users, doc)
       IN  IF saved.code = DuplicateKey
               THEN /\ Finish(r, rec, Resp(409, "false", "message", NoToken))
                    /\ UNCHANGED <<users, signedUp, issued>>
               ELSE /\ users' = saved.coll
                    /\ Finish(r, [rec EXCEPT !.userId = id],
                              Resp(201, "true", "absent", JwtSign(id, secret)))
                    /\ signedUp' = signedUp \cup
                          {[email |-> rec.email, password |-> rec.password, id |-> id]}
                    /\ issued' = issued \cup {Issue(id, secret)}
    /\ UNCHANGED <<products, nextOid, outstanding, procVars, nCartOps, cartOps, assigned>>

(***************************************************************************)
(* POST /login                                                             *)
(***************************************************************************)
\* a comparison that hashes the submitted password under a salt of its own
PassCompareFreshSalt(password, stored) == BcryptHash(password, "fresh-salt") = stored

\* a comparison that accepts every password
PassCompareAny(password, stored) == stored.alg = "bcrypt"

\* const passCompare = await bcrypt.compare(password, user.password)
PassCompare(password, stored) == BcryptCompare(password, stored)

Login(r, email, password) ==
    /\ Listening /\ Free(r)
    /\ LET rec == [IdleReq EXCEPT !.op = "login", !.email = email, !.password = password]
           i == FindByEmail(users, email)
       IN  IF FalsyStr(email) \/ FalsyStr(password)
               THEN Finish(r, rec, Resp(400, "false", "errors", NoToken))
                    /\ UNCHANGED issued
           ELSE /\ StoreReady
                /\ IF i = 0
                       THEN Finish(r, rec, Resp(404, "false", "errors", NoToken))
                            /\ UNCHANGED issued
                   ELSE IF PassCompare(password, users[i].password)
                       THEN /\ Finish(r, [rec EXCEPT !.userId = users[i]._id],
                                   Resp(200, "true", "absent",
                                        JwtSign(users[i]._id, secret)))
                            /\ issued' = issued \cup {Issue(users[i]._id, secret)}
                   ELSE Finish(r, rec, Resp(401, "false", "errors", NoToken))
                        /\ UNCHANGED issued
    /\ UNCHANGED <<dbVars, procVars, nCartOps, assigned, signedUp, cartOps>>

(***************************************************************************)
(* The Product collection.  id carries a unique index (unique: true); the  *)
(* store identity _id is what /removeproduct deletes by.                   *)
(***************************************************************************)
IdTaken(coll, id) == \E i \in 1..Len(coll) : coll[i].id = id

\* a save on a collection without the unique index
SaveProductNoIndex(coll, doc) == [code |-> 0, coll |-> Append(coll, doc)]

\* product.save(): the insert, or the duplicate-key error of the unique index
SaveProduct(coll, doc) ==
    IF IdTaken(coll, doc.id)
        THEN [code |-> DuplicateKey, coll |-> coll]
        ELSE [code |-> 0, coll |-> Append(coll, doc)]

\* an allocation that numbers the first product 0
NextProductIdFromZero(coll) ==
    IF Len(coll) > 0
        THEN coll[Len(coll)].id + 1
        ELSE 0

\* let products = await Product.find({}); the id of the last one plus 1, or 1
NextProductId(coll) ==
    IF Len(coll) > 0
        THEN coll[Len(coll)].id + 1
        ELSE 1

\* a deletion keyed by the numeric id instead of the store identity
DeleteByNumber(coll, oid) == SelectSeq(coll, LAMBDA p : p.id # oid)

\* Product.findByIdAndDelete(_id): the collection without that record
DeleteById(coll, oid) == SelectSeq(coll, LAMBDA p : p._id # oid)

OidPresent(coll, oid) == \E i \in 1..Len(coll) : coll[i]._id = oid

\* !name || !image || !category || !new_price || !old_price
MissingProductField(body) ==
    \/ FalsyStr(body.name) \/ FalsyStr(body.image) \/ FalsyStr(body.category)
    \/ FalsyNum(body.new_price) \/ FalsyNum(body.old_price)

(***************************************************************************)
(* POST /addproduct                                                        *)
(***************************************************************************)
\* the validation, Product.find({}) and the id computed from its result
AddProductFind(r, body) ==
    /\ Listening /\ Free(r)
    /\ Len(assigned) + NumPending("addproduct") < MaxAssigned
    /\ LET rec == [IdleReq EXCEPT !.op = "addproduct", !.body = body]
       IN  IF MissingProductField(body)
               THEN Finish(r, rec, Resp(400, "false", "message", NoToken))
               ELSE /\ StoreReady
                    /\ Await(r, [rec EXCEPT !.newId = NextProductId(products)])
    /\ UNCHANGED <<dbVars, procVars, histVars, cartOps>>

\* product.save() and the response, or the catch
AddProductSave(r) ==
    /\ Pending(r, "addproduct")
    /\ LET rec == reqs[r]
           doc == [_id |-> nextOid, id |-> rec.newId, name |-> rec.body.name]
           saved == SaveProduct(products, doc)
       IN  IF saved.code = DuplicateKey
               THEN /\ Finish(r, rec, Resp(409, "false", "message", NoToken))
                    /\ UNCHANGED <<products, nextOid, assigned>>
               ELSE /\ products' = saved.coll
                    /\ nextOid' = nextOid + 1
                    /\ assigned' = Append(assigned, rec.newId)
                    /\ Finish(r, rec, Resp(201, "true", "message", NoToken))
    /\ UNCHANGED <<users, outstanding, procVars, nCartOps, cartOps, signedUp, issued>>

(***************************************************************************)
(* POST /removeproduct.  oid is req.body.id: 0 stands for a missing id, a  *)
(* negative number for a string that is no ObjectId (CastError).           *)
(***************************************************************************)
RemoveProduct(r, oid) ==
    /\ Listening /\ Free(r)
    /\ LET rec == [IdleReq EXCEPT !.op = "removeproduct", !.itemId = oid]
       IN  IF FalsyNum(oid)
               THEN Finish(r, rec, Resp(400, "false", "message", NoToken)) /\ UNCHANGED products
           ELSE IF oid < 0
               THEN Finish(r, rec, Resp(400, "false", "message", NoToken)) /\ UNCHANGED products
           ELSE /\ StoreReady
                /\ IF ~OidPresent(products, oid)
                       THEN Finish(r, rec, Resp(404, "false", "message", NoToken))
                            /\ UNCHANGED products
                       ELSE /\ products' = DeleteById(products, oid)
                            /\ Finish(r, rec, Resp(200, "true", "message", NoToken))
    /\ UNCHANGED <<users, nextOid, outstanding, procVars, histVars, cartOps>>

(***************************************************************************)
(* The cart endpoints.  fetchUser runs first; then the handler.            *)
(***************************************************************************)
\* product keys the cart requests of the model name: one of the keys a signup
\* pre-populates and one beyond them
CartKeys == {1, CartSlots + 1}

\* adds, removes: the requests handled; removed: the removes that were not
\* rejected; running: the count that an add raises by 1 and a remove lowers by
\* 1 unless it is 0
NoOps == [adds |-> 0, removes |-> 0, removed |-> 0, running |-> 0]

\* a handler that takes the first user for every token
ReqUserFirst(token) == 1

\* req.user = data.user; req.user.id in the handlers
ReqUser(token) == token.id

\* a check of the presence of the header only
TokenMissing(token) == token = NoToken

\* fetchUser: the token header is missing, or jwt.verify throws
Unauthenticated(token) == token = NoToken \/ ~JwtVerify(token, secret)

\* Users.findOne({ _id }): null when no record has that _id
UserMissing(id) == id \notin 1..Len(users)

\* the write as a field-level increment of what is stored at that moment
CartWriteDelta(stored, local, k) ==
    [j \in DOMAIN stored \cup {k} |-> IF j = k THEN Qty(stored, k) + 1 ELSE stored[j]]

\* the write as an update of the one field the request changed: the entry of
\* k is set to the handler's, or removed where the handler deleted it
CartWriteField(stored, local, k) ==
    [j \in (DOMAIN stored \ {k}) \cup ({k} \cap DOMAIN local) |->
        IF j = k THEN local[k] ELSE stored[j]]

\* Users.findOneAndUpdate({ _id }, { cartData: userData.cartData }): the
\* stored map is replaced by the handler's map as a whole
CartWrite(stored, local, k) == local

\* the response body of /getcart with its zero entries left out
CartBodyNoZeros(cart) == [k \in {j \in DOMAIN cart : cart[j] # 0} |-> cart[k]]

\* res.json({ success: true, cartData: userData.cartData })
CartBody(cart) == cart

\* fetchUser, the validation of itemId, Users.findOne and the increment
AddToCartRead(r, token, item) ==
    /\ Listening /\ Free(r)
    /\ LET id == ReqUser(token)
           itemId == PropertyKey(item)
           rec == [IdleReq EXCEPT !.op = "addtocart", !.token = token, !.item = item,
                                  !.itemId = itemId]
       IN  IF Unauthenticated(token)
               THEN Finish(r, rec, Resp(401, "absent", "errors", NoToken))
                    /\ UNCHANGED nCartOps
           ELSE IF InvalidItemId(item)
               THEN Finish(r, [rec EXCEPT !.userId = id],
                           Resp(400, "false", "message", NoToken))
                    /\ UNCHANGED nCartOps
           ELSE /\ StoreReady
                /\ IF UserMissing(id)
                       THEN Finish(r, [rec EXCEPT !.userId = id],
                                   Resp(404, "false", "message", NoToken))
                            /\ UNCHANGED nCartOps
                       ELSE /\ nCartOps < MaxCartOps
                            /\ nCartOps' = nCartOps + 1
                            /\ Await(r, [rec EXCEPT !.userId = id,
                                    !.cart = CartAfterAdd(users[id].cartData, itemId)])
    /\ UNCHANGED <<dbVars, procVars, assigned, signedUp, issued>>

\* Users.findOneAndUpdate and the response, or the catch
AddToCartWrite(r) ==
    /\ Pending(r, "addtocart")
    /\ LET rec == reqs[r]
       IN  \E outcome \in WriteOutcomes(rec.cart) :
               IF outcome = "ok"
                   THEN /\ users' = [users EXCEPT ![rec.userId].cartData =
                                        CartWrite(@, rec.cart, rec.itemId)]
                        /\ Finish(r, rec, Resp(200, "true", "message", NoToken))
                   ELSE /\ users' = users
                        /\ Finish(r, rec, Resp(500, "false", "message", NoToken))
    /\ UNCHANGED <<products, nextOid, outstanding, procVars, histVars, cartOps>>

\* fetchUser, the validation of itemId, Users.findOne, the check of the
\* quantity and the decrement or delete
RemoveFromCartRead(r, token, item) ==
    /\ Listening /\ Free(r)
    /\ LET id == ReqUser(token)
           itemId == PropertyKey(item)
           rec == [IdleReq EXCEPT !.op = "removefromcart", !.token = token,
                                  !.item = item, !.itemId = itemId]
       IN  IF Unauthenticated(token)
               THEN Finish(r, rec, Resp(401, "absent", "errors", NoToken))
                    /\ UNCHANGED nCartOps
           ELSE IF InvalidItemId(item)
               THEN Finish(r, [rec EXCEPT !.userId = id],
                           Resp(400, "false", "message", NoToken))
                    /\ UNCHANGED nCartOps
           ELSE /\ StoreReady
                /\ IF UserMissing(id)
                       THEN Finish(r, [rec EXCEPT !.userId = id],
                                   Resp(404, "false", "message", NoToken))
                            /\ UNCHANGED nCartOps
                       ELSE /\ nCartOps < MaxCartOps
                            /\ nCartOps' = nCartOps + 1
                            /\ LET out == RemoveOutcome(users[id].cartData, itemId)
                               IN  IF out.status = 400
                                       THEN Finish(r, [rec EXCEPT !.userId = id],
                                                Resp(400, "false", "message", NoToken))
                                       ELSE Await(r, [rec EXCEPT !.userId = id,
                                                                 !.cart = out.cart])
    /\ UNCHANGED <<dbVars, procVars, assigned, signedUp, issued>>

\* Users.findOneAndUpdate and the response, or the catch
RemoveFromCartWrite(r) ==
    /\ Pending(r, "removefromcart")
    /\ LET rec == reqs[r]
       IN  \E outcome \in WriteOutcomes(rec.cart) :
               IF outcome = "ok"
                   THEN /\ users' = [users EXCEPT ![rec.userId].cartData =
                                        CartWrite(@, rec.cart, rec.itemId)]
                        /\ Finish(r, rec, Resp(200, "true", "message", NoToken))
                   ELSE /\ users' = users
                        /\ Finish(r, rec, Resp(500, "false", "message", NoToken))
    /\ UNCHANGED <<products, nextOid, outstanding, procVars, histVars, cartOps>>

\* fetchUser, Users.findOne and the response with the stored map
GetCart(r, token) ==
    /\ Listening /\ Free(r)
    /\ LET rec == [IdleReq EXCEPT !.op = "getcart", !.token = token]
           id == ReqUser(token)
       IN  IF Unauthenticated(token)
               THEN Finish(r, rec, Resp(401, "absent", "errors", NoToken))
           ELSE /\ StoreReady
                /\ IF UserMissing(id)
                       THEN Finish(r, [rec EXCEPT !.userId = id],
                                   Resp(404, "false", "message", NoToken))
                       ELSE Finish(r, [rec EXCEPT !.userId = id,
                                               !.cart = CartBody(users[id].cartData)],
                                   Resp(200, "true", "absent", NoToken))
    /\ UNCHANGED <<dbVars, procVars, histVars, cartOps>>

\* upload.single('product') and the response: file tells whether the request
\* carried a file in the field `product`
Upload(r, file) ==
    /\ Listening /\ Free(r)
    /\ LET rec == [IdleReq EXCEPT !.op = "upload"]
       IN  IF ~file
               THEN Finish(r, rec, Resp(400, "0", "message", NoToken))
               ELSE Finish(r, rec, Resp(200, "1", "absent", NoToken))
    /\ UNCHANGED <<dbVars, procVars, histVars, cartOps>>

(***************************************************************************)
(* The process.  mongoose.connect is called when the module loads and      *)
(* settles later; app.listen is called in the same run of the module, so   *)
(* the server listens from the start of the process.  The secret is read   *)
(* from the environment of the process: it changes when the process is     *)
(* started again under another JWT_SECRET, and the store outlives the      *)
(* process.                                                                *)
(***************************************************************************)
\* mongoose.connect resolves
ConnectOk ==
    /\ conn = "connecting"
    /\ conn' = "connected"
    /\ UNCHANGED <<dbVars, secret, reqs, histVars, cartOps>>

\* mongoose.connect rejects: the catch calls process.exit(1), and the requests
\* in flight end with the process
ConnectFail ==
    /\ conn = "connecting"
    /\ conn' = "exited"
    /\ reqs' = [r \in Reqs |-> IdleReq]
    /\ UNCHANGED <<dbVars, secret, histVars, cartOps>>

\* the store operation of a request that waits for it: user.save() of
\* /signup, product.save() of /addproduct, Users.findOneAndUpdate of the cart
\* endpoints, with the values the handler passes
StoreOp(rec) ==
    [op |-> rec.op, userId |-> rec.userId, itemId |-> rec.itemId, cart |-> rec.cart,
     name |-> rec.name, email |-> rec.email, password |-> rec.password,
     body |-> rec.body, newId |-> rec.newId]

\* the process is started again with JWT_SECRET = key; the requests in flight
\* end with the old process and get no response.  An operation that such a
\* request was waiting for has left the handler: it is lost with the process,
\* or it has reached the store, which executes it later.
Restart(key) ==
    /\ secret' = key
    /\ conn' = "connecting"
    /\ reqs' = [r \in Reqs |-> IdleReq]
    /\ \E kept \in SUBSET {StoreOp(reqs[r]) : r \in {q \in Reqs : reqs[q].pc = "pending"}} :
            /\ Cardinality(outstanding \cup kept) <= MaxOutstanding
            /\ outstanding' = outstanding \cup kept
    /\ UNCHANGED <<users, products, nextOid, histVars, cartOps>>

\* the store executes an operation of an ended process: nobody waits for the
\* result, and no response is sent
StoreExecute(op, salt) ==
    /\ op \in outstanding
    /\ outstanding' = outstanding \ {op}
    /\ IF op.op = "signup"
           THEN LET id == Len(users) + 1
                    doc == [_id |-> id, name |-> op.name, email |-> op.email,
                            password |-> BcryptHash(op.password, salt),
                            cartData |-> SignupCart]
                    saved == SaveUser(users, doc)
                IN  /\ users' = saved.coll
                    /\ signedUp' = IF saved.code = DuplicateKey
                                       THEN signedUp
                                       ELSE signedUp \cup {[email |-> op.email,
                                                password |-> op.password, id |-> id]}
                    /\ UNCHANGED <<products, nextOid, assigned>>
       ELSE IF op.op = "addproduct"
           THEN LET doc == [_id |-> nextOid, id |-> op.newId, name |-> op.body.name]
                    saved == SaveProduct(products, doc)
                IN  /\ products' = saved.coll
                    /\ nextOid' = IF saved.code = DuplicateKey THEN nextOid ELSE nextOid + 1
                    /\ assigned' = IF saved.code = DuplicateKey
                                       THEN assigned
                                       ELSE Append(assigned, op.newId)
                    /\ UNCHANGED <<users, signedUp>>
       ELSE /\ \E outcome \in WriteOutcomes(op.cart) :
                   users' = IF outcome = "ok" /\ ~UserMissing(op.userId)
                                THEN [users EXCEPT ![op.userId].cartData =
                                         CartWrite(@, op.cart, op.itemId)]
                                ELSE users
            /\ UNCHANGED <<products, nextOid, assigned, signedUp>>
    /\ UNCHANGED <<procVars, reqs, nCartOps, cartOps, issued>>

(***************************************************************************)
(* Initial state: the process has started with an empty store.             *)
(***************************************************************************)
ProcessSecret == "JWT_SECRET"

Init ==
    /\ users = <<>>
    /\ products = <<>>
    /\ nextOid = 1
    /\ outstanding = {}
    /\ secret = ProcessSecret
    /\ conn = "connected"
    /\ reqs = [r \in Reqs |-> IdleReq]
    /\ nCartOps = 0
    /\ cartOps = [u \in UserIds |-> [k \in CartKeys |-> NoOps]]
    /\ assigned = <<>>
    /\ signedUp = {}
    /\ issued = {}

(***************************************************************************)
(* Inputs of the requests.                                                 *)
(***************************************************************************)
Emails == {"ann@x.com", "bob@x.com"}
Passwords == {"pw123", "hunter2"}
Salts == {"salt1", "salt2"}

\* the tokens the responses so far have handed out
IssuedTokens == {JwtSign(i, secret) : i \in 1..Len(users)}

\* a token signed under another secret
ForgedToken == JwtSign(1, "not-the-secret")

\* a header that is no token: its signature part is not one of its payload
MalformedToken == [id |-> 1, sig |-> <<0, "garbage">>]

\* the values JWT_SECRET takes over the restarts of the process
Secrets == {ProcessSecret, "JWT_SECRET_2"}

\* the auth-token headers of the requests: every token handed out so far, a
\* forged one, a malformed one, and the missing header
PresentedTokens == {h.token : h \in issued} \cup {ForgedToken, MalformedToken, NoToken}

ItemIds == CartKeys \cup {0, -1}

ValidBody == [name |-> "Shirt", image |-> "https://img/1.png", category |-> "men",
              new_price |-> 10, old_price |-> 20]

ProductBodies == {ValidBody, [ValidBody EXCEPT !.name = "Hat", !.category = "women"],
                  [ValidBody EXCEPT !.new_price = 0]}

\* record identities a /removeproduct names: the stored ones, one that is not
\* stored, a missing one and a malformed one
Oids == {products[i]._id : i \in 1..Len(products)} \cup {nextOid, 0, -1}

(***************************************************************************)
(* One user's cart under requests handled one after another: a single      *)
(* request slot, so that each request ends before the next one begins.     *)
(***************************************************************************)
FirstUserToken == IssuedTokens \cap {JwtSign(1, secret)}

\* the request in slot r was handled as a cart mutation: it passed fetchUser
\* and the validation of itemId and found its user
Handled(r, itemId) ==
    /\ ~InvalidItemId(Num(itemId))
    /\ reqs'[r].pc = "pending" \/ reqs'[r].resp.status = 400

\* history of an /addtocart request
TrackAdd(r, id, itemId) ==
    cartOps' = IF Handled(r, itemId)
                   THEN [cartOps EXCEPT ![id][itemId].adds = @ + 1,
                                        ![id][itemId].running = @ + 1]
                   ELSE cartOps

\* history of a /removefromcart request
TrackRemove(r, id, itemId) ==
    cartOps' = IF Handled(r, itemId)
                   THEN [cartOps EXCEPT
                            ![id][itemId].removes = @ + 1,
                            ![id][itemId].removed =
                                IF reqs'[r].pc = "pending" THEN @ + 1 ELSE @,
                            ![id][itemId].running = IF @ > 0 THEN @ - 1 ELSE 0]
                   ELSE cartOps

NextCartSeq ==
    \/ SignupCheck(1, "Ann", "ann@x.com", "pw123")
    \/ SignupSave(1, "salt1")
    \/ \E token \in FirstUserToken, itemId \in ItemIds :
            AddToCartRead(1, token, Num(itemId)) /\ TrackAdd(1, token.id, itemId)
    \/ AddToCartWrite(1)
    \/ \E token \in FirstUserToken, itemId \in ItemIds :
            RemoveFromCartRead(1, token, Num(itemId)) /\ TrackRemove(1, token.id, itemId)
    \/ RemoveFromCartWrite(1)
    \/ \E token \in FirstUserToken : GetCart(1, token)

SpecCartSeq == Init /\ [][NextCartSeq]_vars

(***************************************************************************)
(* C1.  Sequential adds and removes of one user.                           *)
(***************************************************************************)
NetClamped(o) == IF o.adds > o.removes THEN o.adds - o.removes ELSE 0

\* C1 as stated: with no request in flight, the stored quantity of every
\* product is the number of adds minus the number of removes, clamped at 0.
C1_NetOfAllRequests ==
    (Free(1) /\ Len(users) >= 1) =>
        \A k \in CartKeys : Qty(users[1].cartData, k) = NetClamped(cartOps[1][k])

\* C1 amended: with no request in flight, the stored quantity of every product
\* is the running count (an add raises it by 1, a remove lowers it by 1 unless
\* it is 0, in which case the remove is rejected), which is the number of adds
\* minus the number of removes that were not rejected; and a product that a
\* remove brought to 0 is absent as a key.
C1_RunningCount ==
    (Free(1) /\ Len(users) >= 1) =>
        \A k \in CartKeys :
            LET o == cartOps[1][k]
                cart == users[1].cartData
            IN  /\ Qty(cart, k) = o.running
                /\ Qty(cart, k) = o.adds - o.removed
                /\ (o.removed > 0 /\ o.running = 0) => k \notin DOMAIN cart

\* an add, a remove and a rejected remove of product 1 have been handled and
\* its key is gone
C1_Witness ==
    /\ Free(1) /\ Len(users) >= 1
    /\ cartOps[1][1].adds = 1 /\ cartOps[1][1].removes = 2 /\ cartOps[1][1].removed = 1
    /\ 1 \notin DOMAIN users[1].cartData

(***************************************************************************)
(* The carts under concurrent /signup, /addtocart and /removefromcart.     *)
(***************************************************************************)
NextCart ==
    \/ \E r \in Reqs : SignupCheck(r, "Ann", "ann@x.com", "pw123")
    \/ \E r \in Reqs : SignupSave(r, "salt1")
    \/ \E r \in Reqs, token \in IssuedTokens, itemId \in CartKeys :
            AddToCartRead(r, token, Num(itemId)) /\ UNCHANGED cartOps
    \/ \E r \in Reqs : AddToCartWrite(r)
    \/ \E r \in Reqs, token \in IssuedTokens, itemId \in CartKeys :
            RemoveFromCartRead(r, token, Num(itemId)) /\ UNCHANGED cartOps
    \/ \E r \in Reqs : RemoveFromCartWrite(r)

SpecCart == Init /\ [][NextCart]_vars

(***************************************************************************)
(* C2, C3.  The carts under concurrent requests.                           *)
(***************************************************************************)
\* C2: in every reachable state every quantity stored in every user's
\* cartData is a non-negative integer.
C2_QuantitiesNonNegative ==
    \A i \in 1..Len(users) :
        \A k \in DOMAIN users[i].cartData : users[i].cartData[k] \in Nat

\* a remove has completed while another cart request of the same user was in
\* flight, and the stored quantity of its product is back at 0
C2_Witness ==
    \E r1, r2 \in Reqs :
        /\ r1 # r2
        /\ reqs[r1].op = "removefromcart" /\ Free(r1) /\ reqs[r1].resp.status = 200
        /\ reqs[r2].pc = "pending" /\ reqs[r2].userId = reqs[r1].userId
        /\ Qty(users[reqs[r1].userId].cartData, reqs[r1].itemId) = 0

\* two add requests of one user for one product that computed the same q + 1
SameAdd(r1, r2) ==
    /\ r1 # r2
    /\ reqs[r1].op = "addtocart" /\ reqs[r2].op = "addtocart"
    /\ reqs[r1].userId = reqs[r2].userId /\ reqs[r1].itemId = reqs[r2].itemId
    /\ Qty(reqs[r1].cart, reqs[r1].itemId) = Qty(reqs[r2].cart, reqs[r2].itemId)

\* C3: when two /addtocart requests of one user for one product have read the
\* same quantity q, and the second of them completes its write after the first
\* has completed, the stored quantity is q + 1 (the value both computed), not
\* q + 2.
C3_LostUpdate ==
    [][\A r1, r2 \in Reqs :
          (/\ reqs[r1].pc = "pending" /\ reqs'[r1].pc = "done"
           /\ Free(r2) /\ reqs[r2].resp.status = 200
           /\ SameAdd(r1, r2))
          => /\ reqs'[r1].resp.status = 200
             /\ Qty(users'[reqs[r1].userId].cartData, reqs[r1].itemId)
                    = Qty(reqs[r2].cart, reqs[r2].itemId)]_vars

\* exactly two cart mutations were accepted, both adds of one user for one
\* product, both answered 200 with quantity 1, and the stored quantity is 1
C3_Witness ==
    \E r1, r2 \in Reqs :
        /\ nCartOps = 2
        /\ SameAdd(r1, r2)
        /\ Free(r1) /\ reqs[r1].resp.status = 200
        /\ Free(r2) /\ reqs[r2].resp.status = 200
        /\ Qty(reqs[r1].cart, reqs[r1].itemId) = 1
        /\ Qty(users[reqs[r1].userId].cartData, reqs[r1].itemId) = 1

(***************************************************************************)
(* The catalog: requests handled one after another (a single slot), and    *)
(* concurrent requests.                                                    *)
(***************************************************************************)
NextCatalogSeq ==
    \/ \E body \in ProductBodies : AddProductFind(1, body)
    \/ AddProductSave(1)
    \/ \E oid \in Oids : RemoveProduct(1, oid)

SpecCatalogSeq == Init /\ [][NextCatalogSeq]_vars

NextCatalog ==
    \/ \E r \in Reqs : AddProductFind(r, ValidBody)
    \/ \E r \in Reqs : AddProductSave(r)
    \/ \E r \in Reqs, oid \in Oids \ {0, -1} : RemoveProduct(r, oid)

SpecCatalog == Init /\ [][NextCatalog]_vars

RECURSIVE MaxOf(_)
MaxOf(S) ==
    IF S = {} THEN 0
    ELSE LET x == CHOOSE y \in S : TRUE
             m == MaxOf(S \ {x})
         IN  IF x > m THEN x ELSE m

StoredIds == {products[i].id : i \in 1..Len(products)}

\* no product has been removed so far: every identity handed out is stored
NothingRemoved == Len(products) = nextOid - 1

(***************************************************************************)
(* C4, C5.  Identifier assignment, one request after another.              *)
(***************************************************************************)
\* C4: with requests handled one after another and no removal so far, the
\* products stored are numbered 1, 2, 3, ... in the order stored, and no
\* /addproduct with all its fields has been refused.
C4_SequentialIds ==
    NothingRemoved =>
        /\ \A i \in 1..Len(assigned) : assigned[i] = i
        /\ \A i \in 1..Len(products) : products[i].id = i
        /\ (Free(1) /\ reqs[1].op = "addproduct" /\ ~MissingProductField(reqs[1].body))
              => reqs[1].resp.status = 201

\* three products have been added, none removed
C4_Witness ==
    /\ NothingRemoved /\ Free(1)
    /\ assigned = <<1, 2, 3>>

\* C5: over any sequence of /addproduct and /removeproduct requests, the ids
\* of the stored products, in the order assigned, never decrease.
C5_NeverDecrease ==
    \A i, j \in 1..Len(assigned) : i < j => assigned[i] <= assigned[j]

(***************************************************************************)
(* C6, C7.  Identifier assignment under concurrent requests.               *)
(***************************************************************************)
\* C6: in every reachable state no two stored products have the same id.
C6_UniqueIds ==
    \A i, j \in 1..Len(products) : i # j => products[i].id # products[j].id

\* two /addproduct requests computed the same id; one was stored, the other
\* was refused, and the catalog holds that id once
C6_Witness ==
    \E r1, r2 \in Reqs :
        /\ r1 # r2
        /\ reqs[r1].op = "addproduct" /\ Free(r1) /\ reqs[r1].resp.status = 201
        /\ reqs[r2].op = "addproduct" /\ Free(r2) /\ reqs[r2].resp.status = 409
        /\ reqs[r1].newId = reqs[r2].newId
        /\ Cardinality({i \in 1..Len(products) : products[i].id = reqs[r1].newId}) = 1

\* C7: an /addproduct whose insert hits the unique index retries until its
\* product is stored: no request with all its fields ends in a failure.
C7_ConflictRetried ==
    \A r \in Reqs :
        (reqs[r].op = "addproduct" /\ Free(r) /\ ~MissingProductField(reqs[r].body))
            => reqs[r].resp.status = 201

(***************************************************************************)
(* Accounts: concurrent /signup and /login requests.                       *)
(***************************************************************************)
NextAuth ==
    \/ \E r \in Reqs, email \in Emails : SignupCheck(r, "Ann", email, "pw123")
    \/ \E r \in Reqs, salt \in Salts : SignupSave(r, salt)
    \/ \E r \in Reqs, email \in Emails, password \in Passwords : Login(r, email, password)

SpecAuth == Init /\ [][NextAuth]_vars

\* slot r takes a new request in this step
Arrives(r, op) == Free(r) /\ reqs'[r] # reqs[r] /\ reqs'[r].op = op

UsersWithEmail(email) == {i \in 1..Len(users) : users[i].email = email}

(***************************************************************************)
(* C8, C9, C10.                                                            *)
(***************************************************************************)
\* C8: a /signup that arrives with name, email and password while its email
\* is already present is answered 409 and leaves the user collection
\* unchanged.
C8_DuplicateSignupIs409 ==
    [][\A r \in Reqs :
          (/\ Arrives(r, "signup")
           /\ ~FalsyStr(reqs'[r].name) /\ ~FalsyStr(reqs'[r].password)
           /\ EmailTaken(users, reqs'[r].email))
          => /\ reqs'[r].pc = "done"
             /\ reqs'[r].resp.status = 409
             /\ users' = users]_vars

\* a finished /signup that got past the existence check
SavedOrRefused(r) ==
    /\ reqs[r].op = "signup" /\ Free(r)
    /\ reqs[r].resp.status \in {201, 409}

\* C9: in every reachable state no two user records have the same email; of
\* two /signup requests with the same email that both got past the existence
\* check at most one has created a user, each has ended with 201 and a token
\* for the record of that email or with 409, and the email has one record.
C9_UniqueEmail ==
    /\ \A i, j \in 1..Len(users) : i # j => users[i].email # users[j].email
    /\ \A r \in Reqs :
          (reqs[r].op = "signup" /\ Free(r) /\ reqs[r].resp.status # 400) =>
              /\ SavedOrRefused(r)
              /\ Cardinality(UsersWithEmail(reqs[r].email)) = 1
              /\ reqs[r].resp.status = 201 =>
                    /\ JwtVerify(reqs[r].resp.token, secret)
                    /\ UsersWithEmail(reqs[r].email) = {reqs[r].resp.token.id}
              /\ reqs[r].resp.status = 409 => reqs[r].resp.token = NoToken
    /\ \A r1, r2 \in Reqs :
          (/\ r1 # r2 /\ SavedOrRefused(r1) /\ SavedOrRefused(r2)
           /\ reqs[r1].email = reqs[r2].email)
          => ~(reqs[r1].resp.status = 201 /\ reqs[r2].resp.status = 201)

\* two signups with one email both got past the check; one created the user,
\* the other was answered 409
C9_Witness ==
    \E r1, r2 \in Reqs :
        /\ r1 # r2 /\ SavedOrRefused(r1) /\ SavedOrRefused(r2)
        /\ reqs[r1].email = reqs[r2].email
        /\ reqs[r1].resp.status = 201 /\ reqs[r2].resp.status = 409
        /\ Cardinality(UsersWithEmail(reqs[r1].email)) = 1

\* C10: a /login that arrives with the email and password of an earlier
\* successful signup is answered 200 with a token that verifies and carries
\* the id of the record that signup created.
C10_LoginAfterSignup ==
    [][\A r \in Reqs : Arrives(r, "login") =>
          \A h \in signedUp :
              (h.email = reqs'[r].email /\ h.password = reqs'[r].password) =>
                  /\ reqs'[r].resp.status = 200
                  /\ JwtVerify(reqs'[r].resp.token, secret)
                  /\ reqs'[r].resp.token.id = h.id
                  /\ users[h.id].email = h.email]_vars

\* the first user has logged in after a second user has signed up
C10_Witness ==
    \E r \in Reqs, h \in signedUp :
        /\ Len(users) = 2 /\ h.id = 1
        /\ reqs[r].op = "login" /\ Free(r) /\ reqs[r].resp.status = 200
        /\ reqs[r].email = h.email /\ reqs[r].password = h.password
        /\ reqs[r].resp.token = JwtSign(h.id, secret)

(***************************************************************************)
(* C11.  The failures of /login.                                           *)
(***************************************************************************)
\* the signups that created a record for this email
SignedUpAs(email) == {h \in signedUp : h.email = email}

\* C11: a /login with an email and a password gets a token only when a user
\* with that email exists and the password is the one that user signed up
\* with; an unknown email is answered 404 and a wrong password 401, both
\* without a token, and no stored record changes.
C11_LoginFailures ==
    [][\A r \in Reqs :
          (/\ Arrives(r, "login")
           /\ ~FalsyStr(reqs'[r].email) /\ ~FalsyStr(reqs'[r].password))
          => LET known == SignedUpAs(reqs'[r].email)
                 right == {h \in known : h.password = reqs'[r].password}
                 resp == reqs'[r].resp
             IN  /\ users' = users /\ products' = products
                 /\ resp.token # NoToken <=> right # {}
                 /\ known = {} => (resp.status = 404 /\ resp.token = NoToken)
                 /\ (known # {} /\ right = {}) =>
                        (resp.status = 401 /\ resp.token = NoToken)
                 /\ right # {} =>
                        (resp.status = 200 /\ \E h \in right : resp.token.id = h.id)]_vars

\* with a user stored, one login with an unknown email has ended 404 and one
\* with that user's email and another password has ended 401
C11_Witness ==
    \E r1, r2 \in Reqs :
        /\ Len(users) >= 1
        /\ reqs[r1].op = "login" /\ Free(r1) /\ reqs[r1].resp.status = 404
        /\ SignedUpAs(reqs[r1].email) = {} /\ reqs[r1].resp.token = NoToken
        /\ reqs[r2].op = "login" /\ Free(r2) /\ reqs[r2].resp.status = 401
        /\ SignedUpAs(reqs[r2].email) # {} /\ reqs[r2].resp.token = NoToken

(***************************************************************************)
(* Sessions: signups, logins and cart requests with every kind of token,   *)
(* handled one after another, over restarts of the process under another   *)
(* secret.                                                                 *)
(***************************************************************************)
NextSession ==
    \/ \E email \in Emails : SignupCheck(1, "Ann", email, "pw123")
    \/ SignupSave(1, "salt1")
    \/ \E email \in Emails : Login(1, email, "pw123")
    \/ \E token \in PresentedTokens : GetCart(1, token)
    \/ \E token \in PresentedTokens :
            AddToCartRead(1, token, Num(1)) /\ UNCHANGED cartOps
    \/ AddToCartWrite(1)
    \/ \E token \in PresentedTokens :
            RemoveFromCartRead(1, token, Num(1)) /\ UNCHANGED cartOps
    \/ RemoveFromCartWrite(1)
    \/ \E key \in Secrets \ {secret} : Restart(key)
    \/ \E op \in outstanding : StoreExecute(op, "salt1")
    \/ ConnectOk
    \/ ConnectFail

SpecSession == Init /\ [][NextSession]_vars

CartEndpoints == {"addtocart", "removefromcart", "getcart"}

\* slot r takes a request of a cart endpoint in this step
ArrivesAtCart(r) == \E op \in CartEndpoints : Arrives(r, op)

(***************************************************************************)
(* C12, C13, C14.  Tokens.                                                 *)
(***************************************************************************)
\* the tokens handed out under the secret now in force
LiveIssues == {h \in issued : h.key = secret}

\* C12: every token handed out by /signup or /login for a user id verifies
\* under the secret it was signed with, and a cart request that presents it
\* while that secret is in force passes fetchUser with req.user.id equal to
\* that id.
C12_TokenRoundTrip ==
    [][/\ \A h \in issued : JwtVerify(h.token, h.key)
       /\ \A r \in Reqs :
            (reqs[r].op \in {"signup", "login"} /\ reqs[r].resp.token # NoToken)
                => \E h \in issued : h.token = reqs[r].resp.token /\ h.id = reqs[r].userId
       /\ \A r \in Reqs : ArrivesAtCart(r) =>
            \A h \in LiveIssues :
                reqs'[r].token = h.token =>
                    /\ reqs'[r].resp.status # 401
                    /\ reqs'[r].userId = h.id]_vars

\* the token handed out to the second user has fetched that user's cart
C12_Witness ==
    \E h \in LiveIssues :
        /\ h.id = 2 /\ Len(users) = 2
        /\ reqs[1].op = "getcart" /\ Free(1) /\ reqs[1].token = h.token
        /\ reqs[1].resp.status = 200 /\ reqs[1].userId = 2

\* the headers that carry no token signed under the secret in force
BadTokens ==
    {NoToken, MalformedToken}
        \cup {JwtSign(i, key) : i \in UserIds, key \in (Secrets \cup {"not-the-secret"}) \ {secret}}

\* C13: a request to a cart endpoint without the header, or with a token that
\* is malformed or signed under another secret, is answered 401 in the step it
\* arrives in, and no stored record changes.
C13_AuthBoundary ==
    [][\A r \in Reqs :
          (ArrivesAtCart(r) /\ reqs'[r].token \in BadTokens)
          => /\ reqs'[r].pc = "done"
             /\ reqs'[r].resp.status = 401
             /\ reqs'[r].userId = 0
             /\ users' = users /\ products' = products]_vars

\* a /removefromcart with a forged token for the first user was answered 401
\* while that user's cart held the product
C13_Witness ==
    /\ reqs[1].op = "removefromcart" /\ Free(1)
    /\ reqs[1].token = ForgedToken /\ reqs[1].resp.status = 401
    /\ Len(users) >= 1 /\ Qty(users[1].cartData, 1) >= 1

\* C14: a cart request that presents a token handed out earlier is rejected
\* with 401 exactly when the secret in force is not the one the token was
\* signed with, however many requests were handled in between.
C14_AcceptedUnderCurrentSecret ==
    [][\A r \in Reqs : ArrivesAtCart(r) =>
          \A h \in issued :
              reqs'[r].token = h.token =>
                  (reqs'[r].resp.status = 401 <=> h.key # secret)]_vars

\* a token that had added the product twice is rejected after a restart under
\* another secret
C14_Witness ==
    \E h \in issued :
        /\ h.key = ProcessSecret /\ secret # ProcessSecret
        /\ reqs[1].op \in CartEndpoints /\ Free(1)
        /\ reqs[1].token = h.token /\ reqs[1].resp.status = 401
        /\ Qty(users[h.id].cartData, 1) >= 2

(***************************************************************************)
(* Every endpoint with the inputs it refuses as well as those it accepts,  *)
(* one request after another.                                              *)
(***************************************************************************)
\* itemId: 1, 0, -1, 1.5, 0.5, the string "1", and a body without the field
JsonItemIds ==
    {Num(1), Num(0), Num(0 - 1), Json("number", 1, 1), Json("number", 0, 1),
     Json("string", 1, 0), NoItem}

NextApi ==
    \/ \E name \in {"Ann", ""} : SignupCheck(1, name, "ann@x.com", "pw123")
    \/ SignupSave(1, "salt1")
    \/ \E email \in Emails \cup {""}, password \in Passwords : Login(1, email, password)
    \/ \E body \in ProductBodies : AddProductFind(1, body)
    \/ AddProductSave(1)
    \/ \E oid \in {nextOid, 0, 0 - 1} : RemoveProduct(1, oid)
    \/ \E token \in PresentedTokens, item \in JsonItemIds :
            AddToCartRead(1, token, item) /\ UNCHANGED cartOps
    \/ AddToCartWrite(1)
    \/ \E token \in PresentedTokens, item \in JsonItemIds :
            RemoveFromCartRead(1, token, item) /\ UNCHANGED cartOps
    \/ RemoveFromCartWrite(1)
    \/ \E token \in PresentedTokens : GetCart(1, token)
    \/ \E file \in BOOLEAN : Upload(1, file)

SpecApi == Init /\ [][NextApi]_vars

(***************************************************************************)
(* C15.  The validation of itemId by /addtocart.                           *)
(***************************************************************************)
\* the value is a number, an integer, and at least 1
PositiveInteger(v) == v.typ = "number" /\ v.half = 0 /\ v.num >= 1

\* C15: an /addtocart that passes fetchUser with an itemId that is not a
\* positive integer is answered 400 in the step it arrives in, and the stored
\* carts stay as they are.
C15_RejectsNonPositiveInteger ==
    [][\A r \in Reqs :
          (/\ Arrives(r, "addtocart")
           /\ ~Unauthenticated(reqs'[r].token)
           /\ ~PositiveInteger(reqs'[r].item))
          => /\ reqs'[r].pc = "done"
             /\ reqs'[r].resp.status = 400
             /\ users' = users]_vars

(***************************************************************************)
(* C19.  The bodies of the failure responses.                              *)
(***************************************************************************)
\* C19: every response with a failure status (400 and above), of every
\* endpoint and of the token check, carries success:false and a text.
C19_FailuresCarrySuccessFalse ==
    \A r \in Reqs :
        (Free(r) /\ reqs[r].resp.status >= 400)
            => (reqs[r].resp.success = "false" /\ reqs[r].resp.text # "absent")

(***************************************************************************)
(* C16.  /removefromcart of a product without a positive quantity.         *)
(***************************************************************************)
\* C16: a /removefromcart that passes fetchUser and the validation for a
\* product whose stored quantity is not positive at that moment (the key is
\* absent or holds 0) is answered 400 in the step it arrives in: no write is
\* issued and the stored carts stay as they are.
C16_RemoveWithoutQuantity ==
    [][\A r \in Reqs :
          (/\ Arrives(r, "removefromcart")
           /\ ~Unauthenticated(reqs'[r].token)
           /\ ~InvalidItemId(reqs'[r].item)
           /\ ~UserMissing(reqs'[r].token.id)
           /\ Qty(users[reqs'[r].token.id].cartData, reqs'[r].itemId) <= 0)
          => /\ reqs'[r].pc = "done"
             /\ reqs'[r].resp.status = 400
             /\ users' = users]_vars

\* a remove of a product whose key holds the 0 of the signup was answered 400
\* while another cart request of the same user was in flight, and the key is
\* still there
C16_Witness ==
    \E r1, r2 \in Reqs :
        /\ r1 # r2
        /\ reqs[r1].op = "removefromcart" /\ Free(r1) /\ reqs[r1].resp.status = 400
        /\ reqs[r2].pc = "pending" /\ reqs[r2].userId = reqs[r1].userId
        /\ reqs[r1].itemId \in DOMAIN users[reqs[r1].userId].cartData
        /\ users[reqs[r1].userId].cartData[reqs[r1].itemId] = 0

(***************************************************************************)
(* C17.  /getcart.  The cart requests of one user go through slot 1, one   *)
(* after another, and a second client of the same user reads the cart      *)
(* through slot 2: while slot 1 holds an answered /getcart, no cart        *)
(* mutation has completed since that answer.                               *)
(***************************************************************************)
NextCartView ==
    \/ NextCartSeq
    \/ \E token \in FirstUserToken : GetCart(2, token) /\ UNCHANGED cartOps

SpecCartView == Init /\ [][NextCartView]_vars

\* the request is a /getcart that was answered with a cart
GotCart(rec) == rec.op = "getcart" /\ rec.pc = "done" /\ rec.resp.status = 200

\* C17: a /getcart answers with the map stored for its user as it is, keys and
\* zeros included, and changes no stored record; and when no cart mutation has
\* completed since an earlier /getcart of the same user, it answers with the
\* same map as that one.
C17_GetCartVerbatim ==
    [][\A r \in Reqs :
          (Free(r) /\ GotCart(reqs'[r]) /\ reqs'[r] # reqs[r])
          => /\ reqs'[r].cart = users[reqs'[r].userId].cartData
             /\ users' = users /\ products' = products
             /\ (GotCart(reqs[1]) /\ reqs[1].userId = reqs'[r].userId)
                    => reqs'[r].cart = reqs[1].cart]_vars

\* a /getcart in slot 2 was answered with the map of the /getcart in slot 1:
\* product 1 is absent after its removal, product 2 still holds the 0 of the
\* signup, and the product beyond the pre-populated keys holds 1
C17_Witness ==
    /\ GotCart(reqs[1]) /\ GotCart(reqs[2]) /\ Len(users) >= 1
    /\ reqs[2].cart = reqs[1].cart
    /\ reqs[1].cart = users[1].cartData
    /\ 1 \notin DOMAIN reqs[1].cart
    /\ 2 \in DOMAIN reqs[1].cart /\ reqs[1].cart[2] = 0
    /\ Qty(reqs[1].cart, CartSlots + 1) = 1

(***************************************************************************)
(* C18.  The start of the process: the connection attempt is still open,   *)
(* and requests arrive while it is.                                        *)
(***************************************************************************)
InitStartup ==
    /\ users = <<>>
    /\ products = <<>>
    /\ nextOid = 1
    /\ outstanding = {}
    /\ secret = ProcessSecret
    /\ conn = "connecting"
    /\ reqs = [r \in Reqs |-> IdleReq]
    /\ nCartOps = 0
    /\ cartOps = [u \in UserIds |-> [k \in CartKeys |-> NoOps]]
    /\ assigned = <<>>
    /\ signedUp = {}
    /\ issued = {}

NextStartup ==
    \/ ConnectOk
    \/ ConnectFail
    \/ \E r \in Reqs, name \in {"Ann", ""} : SignupCheck(r, name, "ann@x.com", "pw123")
    \/ \E r \in Reqs : SignupSave(r, "salt1")
    \/ \E r \in Reqs, email \in {"ann@x.com", ""} : Login(r, email, "pw123")
    \/ \E r \in Reqs, token \in PresentedTokens : GetCart(r, token)
    \/ \E r \in Reqs, file \in BOOLEAN : Upload(r, file)

SpecStartup == InitStartup /\ [][NextStartup]_vars

Endpoints ==
    {"signup", "login", "addproduct", "removeproduct", "upload"} \cup CartEndpoints

\* C18: no request is taken and handled by a process whose connection attempt
\* has failed or has not succeeded yet.
C18_NoServiceBeforeConnected ==
    [][\A r \in Reqs :
          (\E op \in Endpoints : Arrives(r, op)) => conn = "connected"]_vars

(***************************************************************************)
(* C20.  /removeproduct, with user records in the store.                   *)
(***************************************************************************)
NextShopSeq ==
    \/ SignupCheck(1, "Ann", "ann@x.com", "pw123")
    \/ SignupSave(1, "salt1")
    \/ NextCatalogSeq

SpecShopSeq == Init /\ [][NextShopSeq]_vars

\* the records of a collection
Records(coll) == {coll[i] : i \in 1..Len(coll)}

\* C20: a /removeproduct that names the store identity of a stored product is
\* answered 200 and removes that record and no other, the remaining products
\* keeping their order; one that names an identity no product has is answered
\* 404 and removes nothing; neither changes a user record.
C20_RemoveExactlyOne ==
    [][\A r \in Reqs :
          (Arrives(r, "removeproduct") /\ reqs'[r].itemId > 0)
          => LET oid == reqs'[r].itemId
                 hit == {p \in Records(products) : p._id = oid}
             IN  /\ users' = users
                 /\ hit # {} =>
                       /\ reqs'[r].resp.status = 200
                       /\ Cardinality(hit) = 1
                       /\ Len(products') = Len(products) - 1
                       /\ Records(products') = Records(products) \ hit
                       /\ \A i, j \in 1..Len(products') :
                             i < j => products'[i]._id < products'[j]._id
                 /\ hit = {} =>
                       /\ reqs'[r].resp.status = 404
                       /\ products' = products]_vars

\* two products were added to the empty catalog, the first was removed, and
\* the second is what remains; the user record is in the store
C20_Witness ==
    /\ Len(users) = 1 /\ assigned = <<1, 2>>
    /\ reqs[1].op = "removeproduct" /\ Free(1) /\ reqs[1].resp.status = 200
    /\ reqs[1].itemId = 1
    /\ Len(products) = 1 /\ products[1]._id = 2 /\ products[1].id = 2

(***************************************************************************)
(* C21.  Explicit zeros under concurrent cart requests.                    *)
(***************************************************************************)
\* the map holds the key with the quantity 0
ExplicitZero(cart, k) == k \in DOMAIN cart /\ cart[k] = 0

\* C21: no step takes a product key of a stored cart from a positive quantity
\* to an explicit 0: after the step the key is absent or holds at least 1.
C21_NoZeroAfterPositive ==
    [][\A i \in 1..Len(users) : \A k \in CartKeys :
          Qty(users[i].cartData, k) >= 1 => ~ExplicitZero(users'[i].cartData, k)]_vars

(***************************************************************************)
(* C22, C23.  The id allocation against the catalog's history.             *)
(***************************************************************************)
\* the specified policy: one more than the largest id stored, 1 when empty
MaxPlusOne(coll) == MaxOf({coll[i].id : i \in 1..Len(coll)}) + 1

\* C22: in every reachable state the product inserted last carries the
\* largest id stored, so that the id of the last record plus 1 is the largest
\* id plus 1.
C22_LastIsMax ==
    /\ Len(products) > 0 => products[Len(products)].id = MaxOf(StoredIds)
    /\ NextProductId(products) = MaxPlusOne(products)

\* C23: an id is given to one product only: the ids of the products stored so
\* far, in the order stored, are all different.
C23_IdsNeverReused ==
    \A i, j \in 1..Len(assigned) : i # j => assigned[i] # assigned[j]

(***************************************************************************)
(* C24.  Concurrent cart mutations of one user on different products.      *)
(***************************************************************************)
CartMutations == {"addtocart", "removefromcart"}

\* a mutation of the product's entry that was answered 200
Mutated(rec) == rec.op \in CartMutations /\ rec.pc = "done" /\ rec.resp.status = 200

\* C24: when the write of a cart mutation completes after a mutation of the
\* same user on another product p was answered 200, the quantity stored for p
\* is the one the later writer read, whatever the earlier request stored; the
\* state in which both were answered 200 and p is back at its old quantity is
\* reached.
C24_WholeMapOverwrite ==
    [][\A r1, r2 \in Reqs :
          (/\ r1 # r2 /\ Mutated(reqs[r1])
           /\ reqs[r2].pc = "pending" /\ reqs[r2].op \in CartMutations
           /\ Mutated(reqs'[r2])
           /\ reqs[r1].userId = reqs[r2].userId
           /\ reqs[r1].itemId # reqs[r2].itemId)
          => Qty(users'[reqs[r1].userId].cartData, reqs[r1].itemId)
                 = Qty(reqs[r2].cart, reqs[r1].itemId)]_vars

\* exactly two mutations were accepted, adds of one user for different
\* products, both answered 200; the first stored quantity 1 for its product,
\* and the stored quantity of that product is 0 again
C24_Witness ==
    \E r1, r2 \in Reqs :
        /\ nCartOps = 2 /\ r1 # r2
        /\ Mutated(reqs[r1]) /\ Mutated(reqs[r2])
        /\ reqs[r1].op = "addtocart" /\ reqs[r2].op = "addtocart"
        /\ reqs[r1].userId = reqs[r2].userId
        /\ reqs[r1].itemId # reqs[r2].itemId
        /\ Qty(reqs[r1].cart, reqs[r1].itemId) = 1
        /\ Qty(users[reqs[r1].userId].cartData, reqs[r1].itemId) = 0
        /\ Qty(users[reqs[r1].userId].cartData, reqs[r2].itemId) = 1

(***************************************************************************)
(* C25.  The carts of two users under interleaved requests of both.        *)
(***************************************************************************)
\* two clients, each with one request in flight at a time; either sends its
\* cart requests with the token of either user
Clients == {1, 2}

NextCartUsers ==
    \/ \E r \in Clients, email \in Emails : SignupCheck(r, "Ann", email, "pw123")
    \/ \E r \in Clients : SignupSave(r, "salt1")
    \/ \E r \in Clients, token \in IssuedTokens :
            AddToCartRead(r, token, Num(1)) /\ UNCHANGED cartOps
    \/ \E r \in Clients : AddToCartWrite(r)
    \/ \E r \in Clients, token \in IssuedTokens :
            RemoveFromCartRead(r, token, Num(1)) /\ UNCHANGED cartOps
    \/ \E r \in Clients : RemoveFromCartWrite(r)
    \/ \E r \in Clients, token \in IssuedTokens : GetCart(r, token)

SpecCartUsers == Init /\ [][NextCartUsers]_vars

\* slot r acts as a cart request in this step: the request arrives, or its
\* write completes
CartStep(r) ==
    \/ ArrivesAtCart(r)
    \/ /\ reqs[r].pc = "pending" /\ reqs[r].op \in CartMutations
       /\ reqs'[r].pc = "done"

\* C25: a step of a cart request that carries the token handed out to user A
\* changes no record but A's, leaves A's email and credential as they are,
\* and a /getcart answers with A's map.
C25_OnlyOwnRecord ==
    [][\A r \in Reqs : CartStep(r) =>
          \A h \in issued :
              reqs'[r].token = h.token =>
                  /\ Len(users') = Len(users)
                  /\ \A i \in 1..Len(users) : i # h.id => users'[i] = users[i]
                  /\ users'[h.id].email = users[h.id].email
                  /\ users'[h.id].password = users[h.id].password
                  /\ (ArrivesAtCart(r) /\ GotCart(reqs'[r]))
                        => reqs'[r].cart = users[h.id].cartData]_vars

\* an add with the second user's token has stored quantity 1 in that user's
\* cart while a cart request of the first user was in flight, and the first
\* user's cart is as the signup left it
C25_Witness ==
    \E r1, r2 \in Reqs :
        /\ Len(users) = 2 /\ r1 # r2
        /\ Mutated(reqs[r1]) /\ reqs[r1].token = JwtSign(2, secret)
        /\ reqs[r2].pc = "pending" /\ reqs[r2].token = JwtSign(1, secret)
        /\ Qty(users[2].cartData, 1) = 1
        /\ users[1].cartData = SignupCart

(***************************************************************************)
(* C26.  The record a successful /signup stores.                           *)
(***************************************************************************)
\* C26: the save of a /signup that is answered 201 appends one user record
\* whose cart has exactly the keys 1..300, each at 0, whatever the catalog
\* holds, and whose credential is the bcrypt hash of the submitted password
\* under some salt, not the password itself.
C26_SignupRecord ==
    [][\A r \in Reqs :
          (Pending(r, "signup") /\ reqs'[r].resp.status = 201)
          => LET u == users'[Len(users')]
             IN  /\ Len(users') = Len(users) + 1
                 /\ u.email = reqs[r].email
                 /\ DOMAIN u.cartData = 1..300
                 /\ \A k \in DOMAIN u.cartData : u.cartData[k] = 0
                 /\ u.password.alg = "bcrypt"
                 /\ u.password # PlainText(reqs[r].password, "")
                 /\ \E salt \in Salts : u.password = BcryptHash(reqs[r].password, salt)
                 /\ BcryptCompare(reqs[r].password, u.password)]_vars

\* a signup was answered 201 while the catalog held two products, one of them
\* numbered 2, and the stored cart has its 300 keys
C26_Witness ==
    /\ reqs[1].op = "signup" /\ Free(1) /\ reqs[1].resp.status = 201
    /\ Len(products) = 2 /\ products[2].id = 2
    /\ Len(users) = 1
    /\ Cardinality(DOMAIN users[1].cartData) = 300
    /\ users[1].password = BcryptHash("pw123", "salt1")

====
